---- MODULE Spec2Model ----
(***************************************************************************)
(* Edit-path reconstruction of gedlib/edit_path_extractor.cpp:             *)
(* extractEditPath turns two exchange graphs and a node map into an        *)
(* ordered list of edit operations, mutating a GraphState as it goes.      *)
(* Vectors are sequences; C++ index n is position n + 1 (see At).          *)
(***************************************************************************)
EXTENDS Integers, Sequences, FiniteSets, TLC

\* Largest node count of the graphs with varied labels (Init).
MaxN == 2
\* Largest node count of the uniformly labelled graphs (InitShape).
MaxShapeN == 3

\* ged::GEDGraph::dummy_node() is the largest std::size_t minus one; any
\* value above every node count behaves alike, this one fits TLC's integers.
DUMMY == 2147483646

\* std::vector::operator[] with a zero-based index.
At(v, idx) == v[idx + 1]

\* Variant: the inner loop starts at zero.
InnerStartZero(outer) == 0
\* Lines 167 and 231: the inner loop starts right after the outer index.
InnerStart(outer) == outer + 1

Min(a, b) == IF a < b THEN a ELSE b
Max(a, b) == IF a < b THEN b ELSE a

(***************************************************************************)
(* Labels.  A ged::GXLLabel is a std::map<string,string>, modelled as the  *)
(* sequence of its <<key, value>> pairs in the map's iteration order.      *)
(***************************************************************************)
RECURSIVE Canon(_)
Canon(lbl) ==
    IF lbl = <<>> THEN ""
    ELSE Head(lbl)[1] \o "=" \o Head(lbl)[2] \o ";" \o Canon(Tail(lbl))

LabelA == << <<"symbol", "A">> >>
LabelB == << <<"symbol", "B">> >>
LabelC == << <<"symbol", "C">> >>
LabelX == << <<"valence", "1">> >>

NodeLabelSet == {LabelA, LabelB, LabelC}
EdgeLabelSet == {LabelX}

(***************************************************************************)
(* Inputs: ged::ExchangeGraph and the relation of ged::NodeMap.            *)
(***************************************************************************)
PairsLT(n) == {p \in (0 .. n - 1) \X (0 .. n - 1) : p[1] < p[2]}

\* The symmetric 0/1 adjacency matrix of the undirected edge set E.
AdjMatrix(n, E) ==
    [a \in 1 .. n |-> [b \in 1 .. n |->
        IF <<Min(a, b) - 1, Max(a, b) - 1>> \in E /\ a # b THEN 1 ELSE 0]]

\* Exchange graphs of n nodes: every node labelled from NL, any edge set,
\* an edge-label entry (keyed by the pair with the smaller index first)
\* for any subset of the edges.
GraphsOf(n, NL, EL) ==
    UNION { UNION { { [num_nodes |-> n,
                       node_labels |-> nl,
                       adj_matrix |-> AdjMatrix(n, E),
                       edge_labels |-> el]
                     : nl \in [1 .. n -> NL], el \in [D -> EL] }
                   : D \in SUBSET E }
          : E \in SUBSET PairsLT(n) }

Graphs(maxn, NL, EL) == UNION { GraphsOf(n, NL, EL) : n \in 0 .. maxn }

\* Relations a node map can hand over: every Graph1 node has at most one
\* pair; its image is a Graph2 index, the index one past Graph2's last node,
\* or DUMMY.  Pairs whose first index is not a Graph1 node may ride along.
Relations(n1, n2) ==
    UNION { { {<<s, f[s]>> : s \in D} \cup X
              : f \in [D -> (0 .. n2) \cup {DUMMY}],
                X \in {{}, {<<n1, 0>>, <<DUMMY, n2>>}} }
          : D \in SUBSET (0 .. n1 - 1) }

\* The same graphs with node_labels cut short: the last nodes have no entry.
GraphsShort(maxn, NL, EL) ==
    { [g EXCEPT !.node_labels = [p \in 1 .. Min(m, g.num_nodes) |-> g.node_labels[p]]]
      : g \in Graphs(maxn, NL, EL), m \in 0 .. maxn }

\* Graphs whose num_nodes is one less than the dimension of their adjacency
\* matrix and the length of their label list.
GraphsUnderstated(maxn, NL, EL) ==
    { [g EXCEPT !.num_nodes = g.num_nodes - 1]
      : g \in {h \in Graphs(maxn, NL, EL) : h.num_nodes >= 1} }

VARIABLES ex1, ex2, assignments, mapping, state, editOps,
          nodeMatches, edgeMatches, pc, i, k, output, driver

vars == <<ex1, ex2, assignments, mapping, state, editOps,
          nodeMatches, edgeMatches, pc, i, k, output, driver>>

inputs == <<ex1, ex2, assignments, mapping>>

(***************************************************************************)
(* The benchmarking driver, main of gedlib/main.cpp: a program of its own, *)
(* whose state is the record driver.  It stays at DriverIdle in the runs   *)
(* of extractEditPath, and the extractor's variables stay put in its runs. *)
(***************************************************************************)
\* Largest number of graphs the collection holds.
MaxGraphs == 1013

\* Line 103 of main.cpp: the first value of the outer index.
OuterStart == 1010

\* Methods a run can select, one with a lower and one with an upper bound.
Methods == {"BRANCH", "IPFP"}

DriverIdle ==
    [new_ids |-> <<>>, method |-> "", i |-> 0, j |-> 0, lines |-> <<>>, pc |-> "idle"]

\* Lines 91-104 of main.cpp: n graphs are loaded (their ids are opaque, they
\* are named by their position here), the method is set, the loops begin.
DriverStart(n, m) ==
    [new_ids |-> [p \in 1 .. n |-> p - 1], method |-> m,
     i |-> OuterStart, j |-> OuterStart + 1, lines |-> <<>>, pc |-> "pairs"]

\* Lines 103-130 of main.cpp: one iteration of the inner loop, which runs the
\* method on the pair and prints its line; or the end of a loop.
DriverLoop ==
    /\ driver.pc = "pairs"
    /\ IF driver.i >= Len(driver.new_ids)
       THEN driver' = [driver EXCEPT !.pc = "exit"]
       ELSE IF driver.j >= Len(driver.new_ids)
       THEN driver' = [driver EXCEPT !.i = driver.i + 1, !.j = driver.i + 2]
       ELSE driver' = [driver EXCEPT
                !.lines = Append(driver.lines,
                              [METHOD |-> driver.method,
                               GRAPH1 |-> At(driver.new_ids, driver.i),
                               GRAPH2 |-> At(driver.new_ids, driver.j)]),
                !.j = driver.j + 1]
    /\ UNCHANGED <<inputs, state, editOps, nodeMatches, edgeMatches, pc, i, k, output>>

\* Variant: the bounds test lets the index one past the end through.
BuildMappingInclusive(rel, g1, g2) ==
    LET valid == {a \in rel : a[1] <= g1.num_nodes /\ a[2] <= g2.num_nodes}
    IN  [s \in {a[1] : a \in valid} |-> (CHOOSE a \in valid : a[1] = s)[2]]

\* Variant: the target bound is one too small.
BuildMappingTight(rel, g1, g2) ==
    LET valid == {a \in rel : a[1] < g1.num_nodes /\ a[2] < g2.num_nodes - 1}
    IN  [s \in {a[1] : a \in valid} |-> (CHOOSE a \in valid : a[1] = s)[2]]

\* Lines 34-39: only pairs inside both graphs are kept.
BuildMapping(rel, g1, g2) ==
    LET valid == {a \in rel : a[1] < g1.num_nodes /\ a[2] < g2.num_nodes}
    IN  [s \in {a[1] : a \in valid} |-> (CHOOSE a \in valid : a[1] = s)[2]]

\* Variant: a missing entry is given a placeholder text.
NodeLabelOfPlaceholder(g, n) ==
    IF n < Len(g.node_labels) THEN Canon(At(g.node_labels, n)) ELSE "?"

\* The canonical label of node n of graph g; empty when the entry is missing.
NodeLabelOf(g, n) ==
    IF n < Len(g.node_labels) THEN Canon(At(g.node_labels, n)) ELSE ""

\* Variant: the key is built with the larger index first.
EdgeLabelOfSwapped(g, a, b) ==
    IF <<b, a>> \in DOMAIN g.edge_labels THEN Canon(g.edge_labels[<<b, a>>]) ELSE ""

\* edge_labels.find({a, b}) followed by the formatting loop.
EdgeLabelOf(g, a, b) ==
    IF <<a, b>> \in DOMAIN g.edge_labels THEN Canon(g.edge_labels[<<a, b>>]) ELSE ""

\* Variant: active is resized without its fill value, so every slot starts
\* inactive.
InitStateInactive(g) ==
    LET n == g.num_nodes IN
    [numNodes   |-> n,
     active     |-> [a \in 1 .. n |-> FALSE],
     labels     |-> [a \in 1 .. n |-> NodeLabelOf(g, a - 1)],
     edgeExists |-> [a \in 1 .. n |-> [b \in 1 .. n |->
                        a < b /\ g.adj_matrix[a][b] = 1]],
     edgeLabels |-> [a \in 1 .. n |-> [b \in 1 .. n |->
                        IF a < b /\ g.adj_matrix[a][b] = 1
                        THEN EdgeLabelOf(g, a - 1, b - 1) ELSE ""]]]

\* Variant: Graph1's edge labels are not copied.
InitStateNoEdgeLabels(g) ==
    LET n == g.num_nodes IN
    [numNodes   |-> n,
     active     |-> [a \in 1 .. n |-> TRUE],
     labels     |-> [a \in 1 .. n |-> NodeLabelOf(g, a - 1)],
     edgeExists |-> [a \in 1 .. n |-> [b \in 1 .. n |->
                        a < b /\ g.adj_matrix[a][b] = 1]],
     edgeLabels |-> [a \in 1 .. n |-> [b \in 1 .. n |-> ""]]]

\* Lines 43-72: the edit state copied from Graph1.
InitState(g) ==
    LET n == g.num_nodes IN
    [numNodes   |-> n,
     active     |-> [a \in 1 .. n |-> TRUE],
     labels     |-> [a \in 1 .. n |-> NodeLabelOf(g, a - 1)],
     edgeExists |-> [a \in 1 .. n |-> [b \in 1 .. n |->
                        a < b /\ g.adj_matrix[a][b] = 1]],
     edgeLabels |-> [a \in 1 .. n |-> [b \in 1 .. n |->
                        IF a < b /\ g.adj_matrix[a][b] = 1
                        THEN EdgeLabelOf(g, a - 1, b - 1) ELSE ""]]]

\* Variant: the new label is reported but not stored.
SetLabelDropped(st, n, v) == st

\* Variant: the new label is written to every slot.
SetLabelEverywhere(st, n, v) ==
    [st EXCEPT !.labels = [a \in 1 .. Len(st.labels) |-> v]]

\* Line 95: the slot takes the target's label.
SetLabel(st, n, v) == [st EXCEPT !.labels[n + 1] = v]

\* Variant: the edge label is not stored.
SetEdgeLabelDropped(st, a, b, v) == st

\* Variant: the flag is written at both places of the pair.
SetEdgeExistsMirrored(st, a, b, v) ==
    [st EXCEPT !.edgeExists[a + 1][b + 1] = v, !.edgeExists[b + 1][a + 1] = v]

\* Writes into the two matrices.
SetEdgeExists(st, a, b, v) ==
    [st EXCEPT !.edgeExists[a + 1][b + 1] = v]
SetEdgeLabel(st, a, b, v) ==
    [st EXCEPT !.edgeLabels[a + 1][b + 1] = v]

InitWith(G1, G2) ==
    /\ ex1 \in G1
    /\ ex2 \in G2
    /\ assignments \in Relations(ex1.num_nodes, ex2.num_nodes)
    /\ mapping = BuildMapping(assignments, ex1, ex2)
    /\ state = InitState(ex1)
    /\ editOps = <<>>
    /\ nodeMatches = 0
    /\ edgeMatches = 0
    /\ pc = "nodes"
    /\ i = 0
    /\ k = 0
    /\ output = <<>>
    /\ driver = DriverIdle

Init == InitWith(Graphs(MaxN, NodeLabelSet, EdgeLabelSet),
                 Graphs(MaxN, NodeLabelSet, EdgeLabelSet))

InitShape == InitWith(Graphs(MaxShapeN, {LabelA}, {}),
                      Graphs(MaxShapeN, {LabelA}, {}))

InitMalformed == InitWith(GraphsUnderstated(MaxShapeN, {LabelA}, {}),
                          Graphs(MaxShapeN, {LabelA}, {}))

InitMissing == InitWith(GraphsShort(MaxN, {LabelA}, {LabelX}),
                        GraphsShort(MaxN, {LabelA}, {LabelX}))

\* The driver's start for any number of graphs and either method.
InitDriver ==
    /\ driver \in {DriverStart(n, m) : n \in 0 .. MaxGraphs, m \in Methods}
    /\ ex1 = [num_nodes |-> 0, node_labels |-> <<>>, adj_matrix |-> <<>>,
              edge_labels |-> <<>>]
    /\ ex2 = ex1
    /\ assignments = {}
    /\ mapping = BuildMapping(assignments, ex1, ex2)
    /\ state = InitState(ex1)
    /\ editOps = <<>>
    /\ nodeMatches = 0
    /\ edgeMatches = 0
    /\ pc = "idle"
    /\ i = 0
    /\ k = 0
    /\ output = <<>>

(***************************************************************************)
(* Lines 74-117: one iteration of the Graph1 node loop.                    *)
(***************************************************************************)
\* Variant: a delete leaves the edges alone.
ClearIncidentNone(st, n) == st

\* Variant: the clearing loop starts after n, missing the smaller neighbours.
ClearIncidentBelow(st, n) ==
    [st EXCEPT !.edgeExists =
        [a \in 1 .. Len(st.edgeExists) |-> [b \in 1 .. Len(st.edgeExists[a]) |->
            IF /\ \E j \in n + 1 .. st.numNodes - 1 :
                    j # n /\ a - 1 = Min(n, j) /\ b - 1 = Max(n, j)
            THEN FALSE
            ELSE st.edgeExists[a][b]]]]

\* Lines 110-115: every edge entry touching slot n, at its (min,max) place.
ClearIncident(st, n) ==
    [st EXCEPT !.edgeExists =
        [a \in 1 .. Len(st.edgeExists) |-> [b \in 1 .. Len(st.edgeExists[a]) |->
            IF /\ \E j \in 0 .. st.numNodes - 1 :
                    j # n /\ a - 1 = Min(n, j) /\ b - 1 = Max(n, j)
            THEN FALSE
            ELSE st.edgeExists[a][b]]]]

HasTarget(n) == n \in DOMAIN mapping /\ mapping[n] # DUMMY

NodeBody ==
    IF i >= Len(state.active) \/ ~At(state.active, i)
    THEN UNCHANGED <<state, editOps, nodeMatches>>
    ELSE IF HasTarget(i)
    THEN LET target == mapping[i]
             targetLabel == NodeLabelOf(ex2, target)
         IN  IF At(state.labels, i) # targetLabel
             THEN /\ editOps' = Append(editOps,
                        [op |-> "substitute", graph1_node |-> i,
                         graph2_node |-> target,
                         graph1_label |-> At(state.labels, i),
                         graph2_label |-> targetLabel])
                  /\ state' = SetLabel(state, i, targetLabel)
                  /\ UNCHANGED nodeMatches
             ELSE /\ editOps' = Append(editOps,
                        [op |-> "match", graph1_node |-> i,
                         graph2_node |-> target,
                         label |-> At(state.labels, i)])
                  /\ nodeMatches' = nodeMatches + 1
                  /\ UNCHANGED state
    ELSE /\ editOps' = Append(editOps,
                [op |-> "delete", graph1_node |-> i,
                 graph1_label |-> At(state.labels, i)])
         /\ state' = ClearIncident([state EXCEPT !.active[i + 1] = FALSE], i)
         /\ UNCHANGED nodeMatches

NodeLoop ==
    /\ pc = "nodes"
    /\ IF i < ex1.num_nodes
       THEN /\ NodeBody
            /\ i' = i + 1
            /\ UNCHANGED <<pc, k>>
       ELSE /\ pc' = "inserts"
            /\ i' = 0
            /\ UNCHANGED <<state, editOps, nodeMatches, k>>
    /\ UNCHANGED <<inputs, output, edgeMatches, driver>>

(***************************************************************************)
(* Lines 119-164: one iteration of the Graph2 node loop (its j is i here). *)
(***************************************************************************)
mappedG2 == {mapping[s] : s \in {s \in DOMAIN mapping : mapping[s] # DUMMY}}

\* Variant: the new row is pushed but the existing rows are not widened.
AppendSlotNoColumns(st, lbl) ==
    LET n == st.numNodes + 1 IN
    [numNodes   |-> n,
     active     |-> Append(st.active, TRUE),
     labels     |-> Append(st.labels, lbl),
     edgeExists |-> Append(st.edgeExists, [b \in 1 .. n |-> FALSE]),
     edgeLabels |-> Append(st.edgeLabels, [b \in 1 .. n |-> ""])]

\* Variant: the appended slot is left inactive.
AppendSlotInactive(st, lbl) ==
    LET n == st.numNodes + 1 IN
    [numNodes   |-> n,
     active     |-> Append(st.active, FALSE),
     labels     |-> Append(st.labels, lbl),
     edgeExists |-> Append([r \in 1 .. Len(st.edgeExists) |->
                               IF r - 1 < n - 1 THEN Append(st.edgeExists[r], FALSE)
                               ELSE st.edgeExists[r]],
                           [b \in 1 .. n |-> FALSE]),
     edgeLabels |-> Append([r \in 1 .. Len(st.edgeLabels) |->
                               IF r - 1 < n - 1 THEN Append(st.edgeLabels[r], "")
                               ELSE st.edgeLabels[r]],
                           [b \in 1 .. n |-> ""])]

\* Lines 153-161: a new slot at the end of every vector and matrix.
AppendSlot(st, lbl) ==
    LET n == st.numNodes + 1 IN
    [numNodes   |-> n,
     active     |-> Append(st.active, TRUE),
     labels     |-> Append(st.labels, lbl),
     edgeExists |-> Append([r \in 1 .. Len(st.edgeExists) |->
                               IF r - 1 < n - 1 THEN Append(st.edgeExists[r], FALSE)
                               ELSE st.edgeExists[r]],
                           [b \in 1 .. n |-> FALSE]),
     edgeLabels |-> Append([r \in 1 .. Len(st.edgeLabels) |->
                               IF r - 1 < n - 1 THEN Append(st.edgeLabels[r], "")
                               ELSE st.edgeLabels[r]],
                           [b \in 1 .. n |-> ""])]

\* Variant: the slot is reactivated with the label it had when deleted.
ReuseSlotStaleLabel(st, j, lbl) == [st EXCEPT !.active[j + 1] = TRUE]

\* Lines 139-140: an inactive slot is taken over by the inserted node.
ReuseSlot(st, j, lbl) ==
    [st EXCEPT !.active[j + 1] = TRUE, !.labels[j + 1] = lbl]

InsertOp(j) == [op |-> "insert", graph2_node |-> j,
                graph2_label |-> NodeLabelOf(ex2, j)]

InsertBody ==
    IF i \in mappedG2
    THEN UNCHANGED <<state, editOps>>
    ELSE IF i < state.numNodes /\ ~At(state.active, i)
    THEN /\ editOps' = Append(editOps, InsertOp(i))
         /\ state' = ReuseSlot(state, i, NodeLabelOf(ex2, i))
    ELSE IF i >= state.numNodes
    THEN /\ editOps' = Append(editOps, InsertOp(i))
         /\ state' = AppendSlot(state, NodeLabelOf(ex2, i))
    ELSE UNCHANGED <<state, editOps>>

InsertLoop ==
    /\ pc = "inserts"
    /\ IF i < ex2.num_nodes
       THEN /\ InsertBody
            /\ i' = i + 1
            /\ UNCHANGED <<pc, k>>
       ELSE /\ pc' = "edges1"
            /\ i' = 0
            /\ k' = InnerStart(0)
            /\ UNCHANGED <<state, editOps>>
    /\ UNCHANGED <<inputs, output, nodeMatches, edgeMatches, driver>>

(***************************************************************************)
(* Lines 166-228: one iteration of the inner loop over Graph1's pairs.     *)
(***************************************************************************)
\* Variant: the first endpoint is tested twice, the second never.
SlotsActiveFirstOnly(st, a, b) ==
    /\ a < Len(st.active)
    /\ b < Len(st.active)
    /\ At(st.active, a)
    /\ At(st.active, a)

\* Lines 170-171 and 233-234: both slots exist and are active.
SlotsActive(st, a, b) ==
    /\ a < Len(st.active)
    /\ b < Len(st.active)
    /\ At(st.active, a)
    /\ At(st.active, b)

\* Variant: the matrix is read at the (max,min) place.
EdgeIsActiveSwapped(st, a, b) ==
    /\ a < st.numNodes
    /\ b < st.numNodes
    /\ At(At(st.edgeExists, b), a)

\* Variant: the existence test is dropped, every entry counts as active.
EdgeIsActiveAssumed(st, a, b) == TRUE

\* The guarded read "a < numNodes && b < numNodes && edgeExists[a][b]".
EdgeIsActive(st, a, b) ==
    /\ a < st.numNodes
    /\ b < st.numNodes
    /\ At(At(st.edgeExists, a), b)

MappedOf(n) == IF n \in DOMAIN mapping THEN mapping[n] ELSE DUMMY

Edge1Body ==
    IF At(At(ex1.adj_matrix, i), k) = 1 /\ SlotsActive(state, i, k)
    THEN LET mapped_i == MappedOf(i)
             mapped_k == MappedOf(k)
         IN  IF /\ mapped_i # DUMMY
                /\ mapped_k # DUMMY
                /\ mapped_i < ex2.num_nodes
                /\ mapped_k < ex2.num_nodes
             THEN IF At(At(ex2.adj_matrix, mapped_i), mapped_k) = 1
                  THEN LET currentEdgeLabel ==
                               IF EdgeIsActive(state, i, k)
                               THEN At(At(state.edgeLabels, i), k) ELSE ""
                           targetEdgeLabel == EdgeLabelOf(ex2, mapped_i, mapped_k)
                       IN  IF currentEdgeLabel # targetEdgeLabel
                           THEN /\ editOps' = Append(editOps,
                                      [op |-> "substitute_edge",
                                       graph1_edge |-> <<i, k>>,
                                       graph2_edge |-> <<mapped_i, mapped_k>>,
                                       graph1_label |-> currentEdgeLabel,
                                       graph2_label |-> targetEdgeLabel])
                                /\ state' = SetEdgeLabel(state, i, k, targetEdgeLabel)
                                /\ UNCHANGED edgeMatches
                           ELSE /\ editOps' = Append(editOps,
                                      [op |-> "match_edge",
                                       graph1_edge |-> <<i, k>>,
                                       graph2_edge |-> <<mapped_i, mapped_k>>,
                                       label |-> currentEdgeLabel])
                                /\ edgeMatches' = edgeMatches + 1
                                /\ UNCHANGED state
                  ELSE IF EdgeIsActive(state, i, k)
                       THEN /\ editOps' = Append(editOps,
                                  [op |-> "delete_edge", graph1_edge |-> <<i, k>>])
                            /\ state' = SetEdgeExists(state, i, k, FALSE)
                            /\ UNCHANGED edgeMatches
                       ELSE UNCHANGED <<state, editOps, edgeMatches>>
             ELSE IF EdgeIsActive(state, i, k)
                  THEN /\ editOps' = Append(editOps,
                             [op |-> "delete_edge", graph1_edge |-> <<i, k>>,
                              note |-> "endpoint deleted"])
                       /\ state' = SetEdgeExists(state, i, k, FALSE)
                       /\ UNCHANGED edgeMatches
                  ELSE UNCHANGED <<state, editOps, edgeMatches>>
    ELSE UNCHANGED <<state, editOps, edgeMatches>>

Edge1Loop ==
    /\ pc = "edges1"
    /\ IF i >= ex1.num_nodes
       THEN /\ pc' = "edges2"
            /\ i' = 0
            /\ k' = InnerStart(0)
            /\ UNCHANGED <<state, editOps, edgeMatches>>
       ELSE IF k >= ex1.num_nodes
       THEN /\ i' = i + 1
            /\ k' = InnerStart(i + 1)
            /\ UNCHANGED <<pc, state, editOps, edgeMatches>>
       ELSE /\ Edge1Body
            /\ k' = k + 1
            /\ UNCHANGED <<pc, i>>
    /\ UNCHANGED <<inputs, output, nodeMatches, driver>>

(***************************************************************************)
(* Lines 230-258: one iteration of the inner loop over Graph2's pairs      *)
(* (its j is i here).                                                      *)
(***************************************************************************)
Edge2Body ==
    IF /\ At(At(ex2.adj_matrix, i), k) = 1
       /\ SlotsActive(state, i, k)
       /\ ~EdgeIsActive(state, i, k)
    THEN /\ editOps' = Append(editOps,
               [op |-> "insert_edge", graph2_edge |-> <<i, k>>])
         /\ state' = SetEdgeLabel(SetEdgeExists(state, i, k, TRUE),
                                  i, k, EdgeLabelOf(ex2, i, k))
    ELSE UNCHANGED <<state, editOps>>

\* Variant: after the last pair the loop starts over instead of returning.
Edge2LoopAgain ==
    /\ pc = "edges2"
    /\ IF i >= ex2.num_nodes
       THEN /\ i' = 0
            /\ k' = InnerStart(0)
            /\ UNCHANGED <<pc, state, editOps>>
       ELSE IF k >= ex2.num_nodes
       THEN /\ i' = i + 1
            /\ k' = InnerStart(i + 1)
            /\ UNCHANGED <<pc, state, editOps>>
       ELSE /\ Edge2Body
            /\ k' = k + 1
            /\ UNCHANGED <<pc, i>>
    /\ UNCHANGED <<inputs, output, nodeMatches, edgeMatches, driver>>

Edge2Loop ==
    /\ pc = "edges2"
    /\ IF i >= ex2.num_nodes
       THEN /\ pc' = "done"
            /\ UNCHANGED <<state, editOps, i, k>>
       ELSE IF k >= ex2.num_nodes
       THEN /\ i' = i + 1
            /\ k' = InnerStart(i + 1)
            /\ UNCHANGED <<pc, state, editOps>>
       ELSE /\ Edge2Body
            /\ k' = k + 1
            /\ UNCHANGED <<pc, i>>
    /\ UNCHANGED <<inputs, output, nodeMatches, edgeMatches, driver>>

(***************************************************************************)
(* Lines 324-331 of main: the report built from what extractEditPath       *)
(* returned.  The solver's distance is passed through and left out here.   *)
(***************************************************************************)
\* Variant: the count leaves the match operations out.
MainOutputEditsOnly(ops, nm, em) ==
    [edit_operations       |-> ops,
     edit_operations_count |->
         Cardinality({p \in 1 .. Len(ops) : ops[p].op \notin {"match", "match_edge"}}),
     node_matches          |-> nm,
     edge_matches          |-> em]

MainOutput(ops, nm, em) ==
    [edit_operations       |-> ops,
     edit_operations_count |-> Len(ops),
     node_matches          |-> nm,
     edge_matches          |-> em]

MainReport ==
    /\ pc = "done"
    /\ output' = MainOutput(editOps, nodeMatches, edgeMatches)
    /\ pc' = "reported"
    /\ UNCHANGED <<inputs, state, editOps, nodeMatches, edgeMatches, i, k, driver>>

Next ==
    \/ NodeLoop
    \/ InsertLoop
    \/ Edge1Loop
    \/ Edge2Loop
    \/ MainReport

Spec == Init /\ [][Next]_vars
SpecShape == InitShape /\ [][Next]_vars

\* The program is one sequential thread: while a step is possible it is taken.
SpecFair == Init /\ [][Next]_vars /\ WF_vars(Next)

SpecMalformed == InitMalformed /\ [][Next]_vars
SpecMissing == InitMissing /\ [][Next]_vars

NextDriver == DriverLoop
SpecDriver == InitDriver /\ [][NextDriver]_vars

(***************************************************************************)
(* Vocabulary of the properties.                                           *)
(***************************************************************************)
N1 == ex1.num_nodes
N2 == ex2.num_nodes

NodeKinds1 == {"match", "substitute", "delete"}
NodeKinds == NodeKinds1 \cup {"insert"}
EdgeKinds1 == {"match_edge", "substitute_edge", "delete_edge"}

OpsIdx == 1 .. Len(editOps)
OpsOfKind(K) == {p \in OpsIdx : editOps[p].op \in K}
\* Positions of the operations of Graph1 node n, Graph2 node j (inserted),
\* Graph1 edge e.
OpsOfNode1(n) == {p \in OpsOfKind(NodeKinds1) : editOps[p].graph1_node = n}
InsertsOf(j) == {p \in OpsOfKind({"insert"}) : editOps[p].graph2_node = j}
OpsOfEdge1(e) == {p \in OpsOfKind(EdgeKinds1) : editOps[p].graph1_edge = e}

Edges1 == {e \in PairsLT(N1) : At(At(ex1.adj_matrix, e[1]), e[2]) = 1}
Edges2 == {e \in PairsLT(N2) : At(At(ex2.adj_matrix, e[1]), e[2]) = 1}

NodesDone == pc # "nodes"
InsertsDone == pc \in {"edges1", "edges2", "done", "reported"}
Edges1Done == pc \in {"edges2", "done", "reported"}

\* No two Graph1 nodes share a Graph2 target.
Injective == \A s, t \in DOMAIN mapping : mapping[s] = mapping[t] => s = t
\* Every pair names a Graph1 node and a Graph2 node or DUMMY.
InBounds == \A a \in assignments : a[1] < N1 /\ (a[2] < N2 \/ a[2] = DUMMY)

ActiveSlots == {n \in 0 .. state.numNodes - 1 : At(state.active, n)}
ActiveEdges == {e \in (0 .. Len(state.edgeExists) - 1) \X (0 .. Len(state.edgeExists) - 1) :
                   /\ e[2] < Len(At(state.edgeExists, e[1]))
                   /\ At(At(state.edgeExists, e[1]), e[2])}

(***************************************************************************)
(* C1.  Graph1 = A - B, Graph2 = A - C, correspondence {0->0, 1->DUMMY}.   *)
(***************************************************************************)
PathOf(g, l0, l1) ==
    /\ g.num_nodes = 2
    /\ g.node_labels = <<l0, l1>>
    /\ At(At(g.adj_matrix, 0), 1) = 1

ScenarioAB_AC ==
    /\ PathOf(ex1, LabelA, LabelB)
    /\ PathOf(ex2, LabelA, LabelC)
    /\ assignments = {<<0, 0>>, <<1, DUMMY>>}

\* C1 as stated: the scenario ends with the five operations match(0,0,A),
\* delete(1,B), insert(1,C), delete_edge(0,1), insert_edge(0,1), and the
\* counters 1 and 0.
C1_AsStated ==
    (ScenarioAB_AC /\ pc = "done") =>
        /\ Len(editOps) = 5
        /\ editOps[1] = [op |-> "match", graph1_node |-> 0, graph2_node |-> 0,
                         label |-> "symbol=A;"]
        /\ editOps[2] = [op |-> "delete", graph1_node |-> 1,
                         graph1_label |-> "symbol=B;"]
        /\ editOps[3] = [op |-> "insert", graph2_node |-> 1,
                         graph2_label |-> "symbol=C;"]
        /\ editOps[4].op = "delete_edge" /\ editOps[4].graph1_edge = <<0, 1>>
        /\ editOps[5].op = "insert_edge" /\ editOps[5].graph2_edge = <<0, 1>>
        /\ nodeMatches = 1
        /\ edgeMatches = 0

\* C1 amended: the scenario ends with the four operations match(0,0,A),
\* delete(1,B), insert(1,C), insert_edge(0,1) -- no delete_edge, the edge went
\* with the deleted node -- and the counters 1 and 0.
C1_Scenario ==
    (ScenarioAB_AC /\ pc = "done") =>
        /\ editOps = << [op |-> "match", graph1_node |-> 0, graph2_node |-> 0,
                         label |-> "symbol=A;"],
                        [op |-> "delete", graph1_node |-> 1,
                         graph1_label |-> "symbol=B;"],
                        [op |-> "insert", graph2_node |-> 1,
                         graph2_label |-> "symbol=C;"],
                        [op |-> "insert_edge", graph2_edge |-> <<0, 1>>] >>
        /\ nodeMatches = 1
        /\ edgeMatches = 0

C1_Witness == ScenarioAB_AC /\ pc = "done"

(***************************************************************************)
(* C2.  Once the insert loop is over, under an injective correspondence    *)
(* every Graph2 node that no valid pair targets has exactly one insert,    *)
(* and there are N1 + (N2 - number of valid targets) node operations.      *)
(***************************************************************************)
C2_InsertCoverage ==
    (InsertsDone /\ Injective) =>
        /\ \A j \in (0 .. N2 - 1) \ mappedG2 : Cardinality(InsertsOf(j)) = 1
        /\ Cardinality(OpsOfKind(NodeKinds)) = N1 + (N2 - Cardinality(mappedG2))

(***************************************************************************)
(* C3.  Every Graph1 node the node loop has passed has exactly one         *)
(* operation, a match, substitute or delete; a node not reached yet has    *)
(* none.                                                                   *)
(***************************************************************************)
C3_OneOpPerNode ==
    \A n \in 0 .. N1 - 1 :
        /\ Cardinality(OpsOfNode1(n)) = IF NodesDone \/ n < i THEN 1 ELSE 0
        /\ \A p \in OpsIdx :
              "graph1_node" \in DOMAIN editOps[p] => editOps[p].op \in NodeKinds1

\* A finished run that deleted one node and substituted another.
C3_Witness ==
    /\ pc = "done"
    /\ OpsOfKind({"delete"}) # {}
    /\ OpsOfKind({"substitute"}) # {}

(***************************************************************************)
(* C4.  Under an injective in-bounds correspondence the finished state has *)
(* as many active slots as Graph2 has nodes and as many active edges as    *)
(* Graph2 has edges.                                                       *)
(***************************************************************************)
C4_ReachesGraph2 ==
    (pc = "done" /\ Injective /\ InBounds) =>
        /\ Cardinality(ActiveSlots) = N2
        /\ Cardinality(ActiveEdges) = Cardinality(Edges2)

(***************************************************************************)
(* C5.  In every state an active edge joins two active slots.              *)
(***************************************************************************)
C5_NoDanglingEdge ==
    \A e \in ActiveEdges :
        /\ e[1] < Len(state.active) /\ At(state.active, e[1])
        /\ e[2] < Len(state.active) /\ At(state.active, e[2])

\* A delete of a node that had an edge in Graph1 has happened.
C5_Witness ==
    \E p \in OpsOfKind({"delete"}) :
        \E e \in Edges1 : editOps[p].graph1_node \in {e[1], e[2]}

(***************************************************************************)
(* C6.  After the Graph1 edge loop, every Graph1 edge whose two endpoints  *)
(* were matched or substituted has exactly one of match_edge,              *)
(* substitute_edge, delete_edge; and no Graph1 edge ever has both a        *)
(* delete_edge and a match_edge.                                           *)
(***************************************************************************)
Survives(n) == \E p \in OpsOfNode1(n) : editOps[p].op \in {"match", "substitute"}
Deleted(n) == \E p \in OpsOfNode1(n) : editOps[p].op = "delete"

C6_EdgeConservation ==
    /\ Edges1Done =>
          \A e \in Edges1 :
              (Survives(e[1]) /\ Survives(e[2])) => Cardinality(OpsOfEdge1(e)) = 1
    /\ \A e \in Edges1 :
          ~ /\ \E p \in OpsOfEdge1(e) : editOps[p].op = "delete_edge"
            /\ \E p \in OpsOfEdge1(e) : editOps[p].op = "match_edge"

\* A surviving Graph1 edge was deleted because its images are not adjacent.
C6_Witness ==
    /\ pc = "done"
    /\ \E e \in Edges1 :
          /\ Survives(e[1]) /\ Survives(e[2])
          /\ \E p \in OpsOfEdge1(e) : editOps[p].op = "delete_edge"

(***************************************************************************)
(* C7.  When Graph2 equals Graph1 and every node maps to itself, only      *)
(* match and match_edge are emitted, and at the end node_matches = N1 and  *)
(* edge_matches = number of Graph1 edges.                                  *)
(***************************************************************************)
IdentityCase ==
    /\ ex2 = ex1
    /\ mapping = [n \in 0 .. N1 - 1 |-> n]

C7_Identity ==
    IdentityCase =>
        /\ \A p \in OpsIdx : editOps[p].op \in {"match", "match_edge"}
        /\ pc = "done" =>
              /\ nodeMatches = N1
              /\ edgeMatches = Cardinality(Edges1)
              /\ Len(editOps) = N1 + Cardinality(Edges1)

\* An identity run over a two-node graph with a labelled edge has finished.
C7_Witness ==
    /\ IdentityCase
    /\ pc = "done"
    /\ DOMAIN ex1.edge_labels # {}

(***************************************************************************)
(* C8.  The operations come in four phases -- match/substitute/delete by   *)
(* increasing Graph1 node, insert by increasing Graph2 node, the Graph1    *)
(* edge operations by increasing (i,k), insert_edge by increasing (j,k) -- *)
(* and every edge is reported with its smaller index first.                *)
(***************************************************************************)
Phase(o) ==
    CASE o.op \in NodeKinds1 -> 1
      [] o.op = "insert" -> 2
      [] o.op \in EdgeKinds1 -> 3
      [] o.op = "insert_edge" -> 4

Key(o) ==
    CASE o.op \in NodeKinds1 -> <<o.graph1_node, 0>>
      [] o.op = "insert" -> <<o.graph2_node, 0>>
      [] o.op \in EdgeKinds1 -> o.graph1_edge
      [] o.op = "insert_edge" -> o.graph2_edge

ComesBefore(o1, o2) ==
    \/ Phase(o1) < Phase(o2)
    \/ /\ Phase(o1) = Phase(o2)
       /\ \/ Key(o1)[1] < Key(o2)[1]
          \/ Key(o1)[1] = Key(o2)[1] /\ Key(o1)[2] < Key(o2)[2]

C8_PhaseOrder ==
    /\ \A p \in OpsIdx : p < Len(editOps) => ComesBefore(editOps[p], editOps[p + 1])
    /\ \A p \in OpsIdx : Phase(editOps[p]) \in {3, 4} => Key(editOps[p])[1] < Key(editOps[p])[2]

\* A finished run with two Graph1 edge operations and two edge inserts after
\* its node operations.
C8_Witness ==
    /\ pc = "done"
    /\ Cardinality(OpsOfKind(EdgeKinds1)) >= 2
    /\ Cardinality(OpsOfKind({"insert_edge"})) >= 2
    /\ OpsOfKind(NodeKinds1) # {}

(***************************************************************************)
(* C9.  A Graph1 edge with a deleted endpoint never has an operation of    *)
(* the Graph1 edge loop, reactivated slot or not.                          *)
(***************************************************************************)
C9_NoSecondReport ==
    \A e \in Edges1 : (Deleted(e[1]) \/ Deleted(e[2])) => OpsOfEdge1(e) = {}

\* The edge loop has passed a Graph1 edge one of whose endpoints was deleted
\* and whose slot an insert has reactivated.
C9_Witness ==
    /\ Edges1Done
    /\ \E e \in Edges1 : \E n \in {e[1], e[2]} :
          /\ Deleted(n)
          /\ InsertsOf(n) # {}
          /\ SlotsActive(state, e[1], e[2])

(***************************************************************************)
(* C10.  A pair with a source >= N1 or a target >= N2 (DUMMY included) is  *)
(* left out of the mapping; the Graph1 node it names is deleted like an    *)
(* unmapped one; no index >= N2 is ever taken as a Graph2 node; and the    *)
(* run goes on to its end.                                                 *)
(***************************************************************************)
OutOfRange(a) == a[1] >= N1 \/ a[2] >= N2

C10_OutOfRangeIgnored ==
    /\ \A a \in assignments : OutOfRange(a) =>
          /\ a[1] \notin DOMAIN mapping \/ mapping[a[1]] # a[2]
          /\ (a[1] < N1 /\ (NodesDone \/ a[1] < i)) =>
                /\ OpsOfNode1(a[1]) # {}
                /\ \A p \in OpsOfNode1(a[1]) : editOps[p].op = "delete"
    /\ \A s \in DOMAIN mapping : s < N1 /\ mapping[s] < N2
    /\ \A p \in OpsIdx :
          /\ "graph2_node" \in DOMAIN editOps[p] => editOps[p].graph2_node < N2
          /\ "graph2_edge" \in DOMAIN editOps[p] =>
                editOps[p].graph2_edge[1] < N2 /\ editOps[p].graph2_edge[2] < N2
    /\ pc # "reported" => ENABLED Next

\* A finished run whose relation held a Graph1 node paired with the index
\* one past Graph2's last node, and a pair whose source is no Graph1 node.
C10_Witness ==
    /\ pc = "done"
    /\ \E a \in assignments : a[1] < N1 /\ a[2] = N2
    /\ \E a \in assignments : a[1] >= N1
(***************************************************************************)
(* C11.  In every state the vectors active and labels, the two matrices    *)
(* and each of their rows have numNodes entries.                           *)
(***************************************************************************)
C11_SameDimensions ==
    /\ Len(state.active) = state.numNodes
    /\ Len(state.labels) = state.numNodes
    /\ Len(state.edgeExists) = state.numNodes
    /\ Len(state.edgeLabels) = state.numNodes
    /\ \A r \in 1 .. Len(state.edgeExists) : Len(state.edgeExists[r]) = state.numNodes
    /\ \A r \in 1 .. Len(state.edgeLabels) : Len(state.edgeLabels[r]) = state.numNodes

\* An insert has appended a slot to a state that already had one.
C11_Witness ==
    /\ state.numNodes > N1
    /\ N1 > 0
    /\ OpsOfKind({"insert"}) # {}

(***************************************************************************)
(* C13.  Two single-node graphs with the same label and the correspondence *)
(* {0->0} give exactly one operation, a match of node 0 with that label,   *)
(* node_matches = 1 and edge_matches = 0.                                  *)
(***************************************************************************)
Returned == pc \in {"done", "reported"}

SingleNodeCase ==
    /\ N1 = 1
    /\ N2 = 1
    /\ Len(ex1.node_labels) = 1
    /\ ex2.node_labels = ex1.node_labels
    /\ assignments = {<<0, 0>>}

C13_SingleNode ==
    (SingleNodeCase /\ Returned) =>
        /\ editOps = << [op |-> "match", graph1_node |-> 0, graph2_node |-> 0,
                         label |-> "symbol=" \o ex1.node_labels[1][1][2] \o ";"] >>
        /\ nodeMatches = 1
        /\ edgeMatches = 0

C13_Witness == SingleNodeCase /\ pc = "done" /\ ex1.node_labels = <<LabelB>>

(***************************************************************************)
(* C14.  Starting from zero, node_matches is the number of match           *)
(* operations emitted and edge_matches the number of match_edge            *)
(* operations; the report carries the sequence, these two counters and     *)
(* edit_operations_count = length of the sequence, matches included.       *)
(***************************************************************************)
C14_Counters ==
    /\ nodeMatches = Cardinality(OpsOfKind({"match"}))
    /\ edgeMatches = Cardinality(OpsOfKind({"match_edge"}))
    /\ pc = "reported" =>
          /\ output.edit_operations = editOps
          /\ output.edit_operations_count = Len(editOps)
          /\ output.node_matches = Cardinality(OpsOfKind({"match"}))
          /\ output.edge_matches = Cardinality(OpsOfKind({"match_edge"}))

\* A report with a node match, an edge match and an operation that is neither.
C14_Witness ==
    /\ pc = "reported"
    /\ OpsOfKind({"match"}) # {}
    /\ OpsOfKind({"match_edge"}) # {}
    /\ OpsOfKind({"substitute"}) # {}

(***************************************************************************)
(* C15.  A node with no entry in node_labels and an edge with no entry in  *)
(* edge_labels count as labelled "": every label an operation reports is   *)
(* the entry's text or "", a node operation is a match exactly when the    *)
(* two texts are equal, such nodes and edges get their operation like any  *)
(* other, and the run goes on to its end.  (Inputs: every entry that       *)
(* exists is symbol=A on a node and valence=1 on an edge.)                 *)
(***************************************************************************)
TextOfNode(g, n) == IF n < Len(g.node_labels) THEN "symbol=A;" ELSE ""
TextOfEdge(g, a, b) ==
    IF <<a, b>> \in DOMAIN g.edge_labels \/ <<b, a>> \in DOMAIN g.edge_labels
    THEN "valence=1;" ELSE ""

C15_NodeOpOk(o) ==
    CASE o.op = "match" ->
            /\ o.label = TextOfNode(ex1, o.graph1_node)
            /\ o.label = TextOfNode(ex2, o.graph2_node)
      [] o.op = "substitute" ->
            /\ o.graph1_label = TextOfNode(ex1, o.graph1_node)
            /\ o.graph2_label = TextOfNode(ex2, o.graph2_node)
            /\ o.graph1_label # o.graph2_label
      [] o.op = "delete" -> o.graph1_label = TextOfNode(ex1, o.graph1_node)
      [] o.op = "insert" -> o.graph2_label = TextOfNode(ex2, o.graph2_node)
      [] OTHER -> TRUE

C15_EdgeOpOk(o) ==
    CASE o.op = "match_edge" ->
            /\ o.label = TextOfEdge(ex1, o.graph1_edge[1], o.graph1_edge[2])
            /\ TextOfEdge(ex2, o.graph2_edge[1], o.graph2_edge[2]) = "" => o.label = ""
      [] o.op = "substitute_edge" ->
            /\ o.graph1_label = TextOfEdge(ex1, o.graph1_edge[1], o.graph1_edge[2])
            /\ TextOfEdge(ex2, o.graph2_edge[1], o.graph2_edge[2]) = "" =>
                  o.graph2_label = ""
            /\ o.graph1_label # o.graph2_label
      [] OTHER -> TRUE

C15_MissingIsEmpty ==
    /\ \A p \in OpsIdx : C15_NodeOpOk(editOps[p]) /\ C15_EdgeOpOk(editOps[p])
    /\ \A n \in 0 .. N1 - 1 :
          (n >= Len(ex1.node_labels) /\ (NodesDone \/ n < i)) =>
              Cardinality(OpsOfNode1(n)) = 1
    /\ Edges1Done =>
          \A e \in Edges1 :
              (/\ e \notin DOMAIN ex1.edge_labels
               /\ e[1] \in DOMAIN mapping
               /\ e[2] \in DOMAIN mapping) => Cardinality(OpsOfEdge1(e)) = 1
    /\ pc # "reported" => ENABLED Next

\* A finished run that matched a node without entry against one without
\* entry, substituted a labelled and an unlabelled node, and matched two
\* edges without entry.
C15_Witness ==
    /\ pc = "done"
    /\ \E p \in OpsOfKind({"match"}) : editOps[p].label = ""
    /\ \E p \in OpsOfKind({"substitute"}) : "" \in {editOps[p].graph1_label, editOps[p].graph2_label}
    /\ \E p \in OpsOfKind({"match_edge"}) : editOps[p].label = ""

(***************************************************************************)
(* C16.  When Graph1's node count disagrees with the dimension of its      *)
(* adjacency matrix, no operation is ever emitted and the reconstruction   *)
(* does not return a sequence (it fails with InvalidInput instead).        *)
(***************************************************************************)
Malformed(g) == Len(g.adj_matrix) # g.num_nodes

C16_FailFast == Malformed(ex1) => (editOps = <<>> /\ ~Returned)

(***************************************************************************)
(* C17.  An operation for a Graph1 edge whose images are adjacent is a     *)
(* match_edge exactly when Graph1's canonical label of the edge equals     *)
(* Graph2's canonical label of the edge between the two images, looked up  *)
(* with the smaller index first whichever way round the images are;        *)
(* after a substitute_edge the state's label of the edge is Graph2's.      *)
(***************************************************************************)
LabelOfEdge2(t) == EdgeLabelOf(ex2, Min(t[1], t[2]), Max(t[1], t[2]))

C17_EdgeLabelCompared ==
    \A p \in OpsOfKind({"match_edge", "substitute_edge"}) :
        LET o == editOps[p]
            e == o.graph1_edge
        IN  /\ o.op = "match_edge" <=>
                  EdgeLabelOf(ex1, e[1], e[2]) = LabelOfEdge2(o.graph2_edge)
            /\ o.op = "substitute_edge" =>
                  At(At(state.edgeLabels, e[1]), e[2]) = LabelOfEdge2(o.graph2_edge)

(***************************************************************************)
(* C18.  An insert that appended a slot (its Graph2 node j is not below    *)
(* N1) leaves a state that covers j: j is below the slot count and slot j  *)
(* is active with Graph2's canonical label of j.                           *)
(***************************************************************************)
C18_AppendCovers ==
    \A p \in OpsOfKind({"insert"}) :
        LET j == editOps[p].graph2_node
        IN  j >= N1 =>
                /\ j < state.numNodes
                /\ At(state.active, j)
                /\ At(state.labels, j) = NodeLabelOf(ex2, j)

(***************************************************************************)
(* C19.  The step of the node loop at a Graph1 node i with a valid target  *)
(* t appends match(i, t, label) and increments node_matches when the       *)
(* state's label of slot i equals Graph2's canonical label of t, and       *)
(* appends substitute(i, t, old, new) otherwise; either way slot i then    *)
(* carries Graph2's label of t and is active.                              *)
(***************************************************************************)
C19_StepOk ==
    LET t == mapping[i]
        old == At(state.labels, i)
        new == Canon(At(ex2.node_labels, t))
    IN  /\ IF old = new
           THEN /\ editOps' = Append(editOps,
                      [op |-> "match", graph1_node |-> i, graph2_node |-> t,
                       label |-> old])
                /\ nodeMatches' = nodeMatches + 1
           ELSE /\ editOps' = Append(editOps,
                      [op |-> "substitute", graph1_node |-> i, graph2_node |-> t,
                       graph1_label |-> old, graph2_label |-> new])
                /\ nodeMatches' = nodeMatches
        /\ At(state'.labels, i) = new
        /\ At(state'.active, i)

C19_MatchOrSubstitute ==
    [][(pc = "nodes" /\ i < N1 /\ i \in DOMAIN mapping) => C19_StepOk]_vars

\* The loop has matched one node and substituted another.
C19_Witness ==
    /\ NodesDone
    /\ OpsOfKind({"match"}) # {}
    /\ OpsOfKind({"substitute"}) # {}

(***************************************************************************)
(* C20.  The step of the insert loop at an unclaimed Graph2 node j whose   *)
(* slot exists and is inactive appends insert(j) and reuses the slot: it   *)
(* becomes active with Graph2's label of j, the number of slots stays, no  *)
(* edge becomes active, and no other slot's flag or label changes.         *)
(***************************************************************************)
C20_StepOk ==
    LET new == Canon(At(ex2.node_labels, i))
    IN  /\ editOps' = Append(editOps,
              [op |-> "insert", graph2_node |-> i, graph2_label |-> new])
        /\ At(state'.active, i)
        /\ At(state'.labels, i) = new
        /\ state'.numNodes = state.numNodes
        /\ Len(state'.active) = Len(state.active)
        /\ Len(state'.labels) = Len(state.labels)
        /\ Len(state'.edgeExists) = Len(state.edgeExists)
        /\ \A a \in 1 .. Len(state.edgeExists) :
              /\ Len(state'.edgeExists[a]) = Len(state.edgeExists[a])
              /\ \A b \in 1 .. Len(state.edgeExists[a]) :
                    state'.edgeExists[a][b] => state.edgeExists[a][b]
        /\ \A n \in 0 .. state.numNodes - 1 :
              n # i => /\ At(state'.active, n) = At(state.active, n)
                       /\ At(state'.labels, n) = At(state.labels, n)

C20_ReuseFrame ==
    [][(/\ pc = "inserts"
        /\ i < N2
        /\ i \notin mappedG2
        /\ i < state.numNodes
        /\ ~At(state.active, i)) => C20_StepOk]_vars

\* A slot vacated by a delete has been reused under a different label, next
\* to a slot that stayed active.
C20_Witness ==
    \E p \in OpsOfKind({"insert"}) : \E q \in OpsOfKind({"delete"}) :
        /\ editOps[p].graph2_node = editOps[q].graph1_node
        /\ editOps[p].graph2_label # editOps[q].graph1_label
        /\ OpsOfKind({"match", "substitute"}) # {}

(***************************************************************************)
(* C21.  A step of the Graph2 edge loop at a Graph2 edge (j,k), j < k,     *)
(* whose two slots are active appends insert_edge(j,k), activates the edge *)
(* and stores Graph2's canonical label of (j,k) when the edge was not      *)
(* active, and changes nothing when it was.  After the loop every Graph2   *)
(* edge with two active slots is active; every insert_edge names such an   *)
(* edge, no edge has two, and the edge's label in the state is Graph2's.   *)
(***************************************************************************)
InsertEdgesOf(e) == {p \in OpsOfKind({"insert_edge"}) : editOps[p].graph2_edge = e}

CanonEdge2(e) ==
    IF e \in DOMAIN ex2.edge_labels THEN Canon(ex2.edge_labels[e]) ELSE ""

C21_StepOk ==
    IF At(At(state.edgeExists, i), k)
    THEN editOps' = editOps /\ state' = state
    ELSE /\ editOps' = Append(editOps, [op |-> "insert_edge", graph2_edge |-> <<i, k>>])
         /\ At(At(state'.edgeExists, i), k)
         /\ At(At(state'.edgeLabels, i), k) = CanonEdge2(<<i, k>>)

C21_AfterPhase ==
    /\ \A e \in Edges2 : Cardinality(InsertEdgesOf(e)) <= 1
    /\ \A p \in OpsOfKind({"insert_edge"}) :
          /\ editOps[p].graph2_edge \in Edges2
          /\ SlotsActive(state, editOps[p].graph2_edge[1], editOps[p].graph2_edge[2])
    /\ Returned =>
          \A e \in Edges2 : SlotsActive(state, e[1], e[2]) =>
              /\ At(At(state.edgeExists, e[1]), e[2])
              /\ InsertEdgesOf(e) # {} =>
                    At(At(state.edgeLabels, e[1]), e[2]) = CanonEdge2(e)

C21_InsertEdges ==
    /\ []C21_AfterPhase
    /\ [][(/\ pc = "edges2"
           /\ <<i, k>> \in Edges2
           /\ SlotsActive(state, i, k)) => C21_StepOk]_vars

\* A finished run that inserted a labelled Graph2 edge.
C21_Witness ==
    /\ Returned
    /\ \E e \in Edges2 : InsertEdgesOf(e) # {} /\ CanonEdge2(e) # ""

(***************************************************************************)
(* C22.  Under an injective in-bounds correspondence no Graph2 edge is     *)
(* both the graph2_edge of a match_edge or substitute_edge and the         *)
(* graph2_edge of an insert_edge.                                          *)
(***************************************************************************)
SameEdge(s, t) == {s[1], s[2]} = {t[1], t[2]}

C22_EdgeOnce ==
    (Injective /\ InBounds) =>
        \A p \in OpsOfKind({"match_edge", "substitute_edge"}) :
            \A q \in OpsOfKind({"insert_edge"}) :
                ~SameEdge(editOps[p].graph2_edge, editOps[q].graph2_edge)

(***************************************************************************)
(* C23.  When every pair of the correspondence maps an index to itself and *)
(* is in bounds, the final state is Graph2: slot j is active iff j < N2,   *)
(* an active slot j carries Graph2's canonical label of j, and the entry   *)
(* (j,k) is active iff Graph2 has the edge (j,k), whose canonical label it *)
(* then carries.                                                           *)
(***************************************************************************)
IdentityPairs == \A a \in assignments : a[1] = a[2] /\ a[1] < N1 /\ a[2] < N2

CanonNode2(n) ==
    IF n < Len(ex2.node_labels) THEN Canon(At(ex2.node_labels, n)) ELSE ""

C23_EndsAtGraph2 ==
    (IdentityPairs /\ Returned) =>
        /\ \A n \in 0 .. state.numNodes - 1 :
              /\ At(state.active, n) <=> n < N2
              /\ At(state.active, n) => At(state.labels, n) = CanonNode2(n)
        /\ state.numNodes >= N2
        /\ \A e \in (0 .. state.numNodes - 1) \X (0 .. state.numNodes - 1) :
              /\ At(At(state.edgeExists, e[1]), e[2]) <=> e \in Edges2
              /\ e \in Edges2 => At(At(state.edgeLabels, e[1]), e[2]) = CanonEdge2(e)

\* A finished run under a partial identity correspondence that substituted a
\* node, deleted one, reused its slot, and inserted a labelled edge.
C23_Witness ==
    /\ IdentityPairs
    /\ pc = "done"
    /\ OpsOfKind({"substitute"}) # {}
    /\ \E p \in OpsOfKind({"delete"}) : InsertsOf(editOps[p].graph1_node) # {}
    /\ \E e \in Edges2 : InsertEdgesOf(e) # {} /\ CanonEdge2(e) # ""

(***************************************************************************)
(* C24.  After the Graph1 edge loop a Graph1 edge (i,k) has a delete_edge  *)
(* iff both i and k have a valid target and the two targets are not        *)
(* adjacent in Graph2; a delete_edge names a Graph1 edge, and no operation *)
(* ever carries the note "endpoint deleted".                               *)
(***************************************************************************)
ValidTarget(n) ==
    /\ \E a \in assignments : a[1] = n /\ a[1] < N1 /\ a[2] < N2
    /\ n \in DOMAIN mapping

DeleteEdgesOf(e) == {p \in OpsOfKind({"delete_edge"}) : editOps[p].graph1_edge = e}

C24_DeleteEdgeIff ==
    /\ Edges1Done =>
          \A e \in Edges1 :
              DeleteEdgesOf(e) # {} <=>
                  /\ ValidTarget(e[1])
                  /\ ValidTarget(e[2])
                  /\ At(At(ex2.adj_matrix, mapping[e[1]]), mapping[e[2]]) # 1
    /\ \A p \in OpsOfKind({"delete_edge"}) : editOps[p].graph1_edge \in Edges1
    /\ \A p \in OpsIdx : "note" \notin DOMAIN editOps[p]

\* The edge loop has passed a Graph1 edge with a deleted endpoint whose slot
\* an insert reactivated, and has deleted another edge.
C24_Witness ==
    /\ Edges1Done
    /\ OpsOfKind({"delete_edge"}) # {}
    /\ \E e \in Edges1 : \E n \in {e[1], e[2]} :
          Deleted(n) /\ InsertsOf(n) # {} /\ SlotsActive(state, e[1], e[2])

(***************************************************************************)
(* C25.  A step that appends a match or a match_edge leaves the state as   *)
(* it was; a step that appends a substitute changes nothing but the label  *)
(* of its slot; a step of either edge loop changes no active flag, no node *)
(* label and not the number of slots.                                      *)
(***************************************************************************)
Appended == Len(editOps') = Len(editOps) + 1
NewOp == editOps'[Len(editOps')]

C25_StepOk ==
    /\ (Appended /\ NewOp.op \in {"match", "match_edge"}) => state' = state
    /\ (Appended /\ NewOp.op = "substitute") =>
          state' = [state EXCEPT !.labels[NewOp.graph1_node + 1] =
                                      state'.labels[NewOp.graph1_node + 1]]
    /\ pc \in {"edges1", "edges2"} =>
          /\ state'.active = state.active
          /\ state'.labels = state.labels
          /\ state'.numNodes = state.numNodes
          /\ Len(state'.edgeExists) = Len(state.edgeExists)
          /\ Len(state'.edgeLabels) = Len(state.edgeLabels)

C25_Frame == [][C25_StepOk]_vars

\* A finished run with a match, a substitute and a matched or relabelled edge.
C25_Witness ==
    /\ pc = "done"
    /\ OpsOfKind({"match"}) # {}
    /\ OpsOfKind({"substitute"}) # {}
    /\ OpsOfKind({"match_edge", "substitute_edge"}) # {}

(***************************************************************************)
(* C26.  Every match_edge and substitute_edge for a Graph1 edge (i,k)      *)
(* reports as current label (label, graph1_label) Graph1's canonical label *)
(* of (i,k), and (i,k) is a Graph1 edge whose entry is not one that holds  *)
(* a label left behind by a deactivated edge.                              *)
(***************************************************************************)
CanonEdge1(e) ==
    IF e \in DOMAIN ex1.edge_labels THEN Canon(ex1.edge_labels[e]) ELSE ""

CurrentLabelOf(o) == IF o.op = "match_edge" THEN o.label ELSE o.graph1_label

\* Entries of the label matrix that are not empty although the edge is not
\* active.
StaleEdgeLabels ==
    {e \in (0 .. state.numNodes - 1) \X (0 .. state.numNodes - 1) :
        /\ ~At(At(state.edgeExists, e[1]), e[2])
        /\ At(At(state.edgeLabels, e[1]), e[2]) # ""}

C26_CurrentLabel ==
    /\ \A p \in OpsOfKind({"match_edge", "substitute_edge"}) :
          /\ editOps[p].graph1_edge \in Edges1
          /\ CurrentLabelOf(editOps[p]) = CanonEdge1(editOps[p].graph1_edge)
    /\ \A p \in OpsOfKind({"match_edge", "substitute_edge"}) :
          editOps[p].graph1_edge \notin StaleEdgeLabels

\* The edge loop has matched or relabelled a labelled Graph1 edge.
C26_Witness ==
    /\ Edges1Done
    /\ \E p \in OpsOfKind({"match_edge", "substitute_edge"}) :
          CurrentLabelOf(editOps[p]) # ""

(***************************************************************************)
(* C27.  Every run returns and reports; there are never more than N1 + N2  *)
(* node operations, never more than one operation of the Graph1 edge loop  *)
(* for a Graph1 edge and none for a pair that is no Graph1 edge, never     *)
(* more than one insert_edge for a Graph2 edge and none for a pair that is *)
(* no Graph2 edge.                                                         *)
(***************************************************************************)
C27_Bounds ==
    /\ Cardinality(OpsOfKind(NodeKinds)) <= N1 + N2
    /\ \A e \in Edges1 : Cardinality(OpsOfEdge1(e)) <= 1
    /\ \A p \in OpsOfKind(EdgeKinds1) : editOps[p].graph1_edge \in Edges1
    /\ \A e \in Edges2 : Cardinality(InsertEdgesOf(e)) <= 1
    /\ \A p \in OpsOfKind({"insert_edge"}) : editOps[p].graph2_edge \in Edges2
    /\ Len(editOps) = Cardinality(OpsOfKind(NodeKinds \cup EdgeKinds1 \cup {"insert_edge"}))

C27_Terminates == <>(pc = "reported") /\ []C27_Bounds

\* A run has reported after node operations, an operation of the Graph1
\* edge loop and an inserted edge.
C27_Witness ==
    /\ pc = "reported"
    /\ OpsOfKind(NodeKinds1) # {}
    /\ OpsOfKind(EdgeKinds1) # {}
    /\ OpsOfKind({"insert_edge"}) # {}

(***************************************************************************)
(* C28.  When the driver exits it has printed one line for every pair      *)
(* (i,j) with 0 <= i < j < number of loaded graphs, each pair once, all    *)
(* for the selected method.                                                *)
(***************************************************************************)
NumGraphs == Len(driver.new_ids)
LineIdx == 1 .. Len(driver.lines)

C28_AllPairs ==
    driver.pc = "exit" =>
        /\ Len(driver.lines) = (NumGraphs * (NumGraphs - 1)) \div 2
        /\ \A p \in LineIdx :
              /\ driver.lines[p].METHOD = driver.method
              /\ 0 <= driver.lines[p].GRAPH1
              /\ driver.lines[p].GRAPH1 < driver.lines[p].GRAPH2
              /\ driver.lines[p].GRAPH2 < NumGraphs
        /\ \A p, q \in LineIdx : driver.lines[p] = driver.lines[q] => p = q

(***************************************************************************)
(* C29.  In every state no entry edgeExists[a][b] with a >= b is true, and *)
(* wherever a loop is about to read or write an entry of the two matrices  *)
(* -- the entries touching a node it deletes, the entry of a Graph1 edge   *)
(* or Graph2 edge with two active slots -- the indices satisfy             *)
(* a < b < numNodes and lie inside both matrices.                          *)
(***************************************************************************)
EntryOk(a, b) ==
    /\ 0 <= a
    /\ a < b
    /\ b < state.numNodes
    /\ a < Len(state.edgeExists) /\ b < Len(At(state.edgeExists, a))
    /\ a < Len(state.edgeLabels) /\ b < Len(At(state.edgeLabels, a))

C29_MinMaxOnly ==
    /\ \A e \in ActiveEdges : e[1] < e[2]
    /\ (/\ pc = "nodes" /\ i < N1
        /\ i < Len(state.active) /\ At(state.active, i)
        /\ ~HasTarget(i)) =>
          \A n \in 0 .. state.numNodes - 1 : n # i => EntryOk(Min(i, n), Max(i, n))
    /\ (/\ pc = "edges1" /\ i < N1 /\ k < N1
        /\ At(At(ex1.adj_matrix, i), k) = 1
        /\ SlotsActive(state, i, k)) => EntryOk(i, k)
    /\ (/\ pc = "edges2" /\ i < N2 /\ k < N2
        /\ At(At(ex2.adj_matrix, i), k) = 1
        /\ SlotsActive(state, i, k)) => EntryOk(i, k)

\* A run that deleted a node, appended a slot and inserted an edge.
C29_Witness ==
    /\ OpsOfKind({"delete"}) # {}
    /\ state.numNodes > N1
    /\ OpsOfKind({"insert_edge"}) # {}

(***************************************************************************)
(* C30.  When the insert loop is about to reuse an inactive slot j, every  *)
(* edge entry touching j is inactive and every edge label entry touching j *)
(* is the empty string.                                                    *)
(***************************************************************************)
C30_ReuseIsClean ==
    (/\ pc = "inserts" /\ i < N2
     /\ i \notin mappedG2
     /\ i < state.numNodes /\ ~At(state.active, i)) =>
        \A n \in 0 .. state.numNodes - 1 : n # i =>
            /\ ~At(At(state.edgeExists, Min(i, n)), Max(i, n))
            /\ At(At(state.edgeLabels, Min(i, n)), Max(i, n)) = ""
====
